---- MODULE Spec2Model ----
(***************************************************************************)
(* Model of run/prepare_data.py: the feature preparer of the sleep-state   *)
(* pipeline.  One run of main() wipes {processed_dir}/{phase}, loads and   *)
(* sorts the phase's series file, and writes, per series_id, one .npy      *)
(* array per feature channel.                                              *)
(*                                                                         *)
(* The file system is a function from paths (sequences of names) to        *)
(* contents: Dir for a directory, File(x) for a file, x being the rows of a *)
(* parquet file or the values of an .npy array.                            *)
(*                                                                         *)
(* Numbers: anglez and enmo are fixed-point, in millionths; a normalised   *)
(* value is kept in hundredths.  sin and cos are kept symbolically, as the *)
(* function name applied to the angle 2*pi*num/den.                        *)
(*                                                                         *)
(* series_id values are single path components, as in the data set.        *)
(***************************************************************************)
EXTENDS Integers, Sequences, FiniteSets, TLC

VARIABLES fs, pc, phase, err, inputRead, series_df, remaining, cur_series,
          this_series_df, colIdx, lastRun, runs, edits

vars == <<fs, pc, phase, err, inputRead, series_df, remaining, cur_series,
          this_series_df, colIdx, lastRun, runs, edits>>

\* Number of runs of main() in one behaviour.
MaxRuns == 2

\* Number of times the series files are replaced in one behaviour.
MaxEdits == 1

-----------------------------------------------------------------------------
(* Constants of the program *)

FEATURE_NAMES ==
    <<"anglez", "enmo", "hour_sin", "hour_cos",
      "month_sin", "month_cos", "minute_sin", "minute_cos">>

ANGLEZ_MEAN == -8810476
ANGLEZ_STD == 35521877
ENMO_MEAN == 41315
ENMO_STD == 101829

\* cfg.dir.data_dir and cfg.dir.processed_dir
DataDir == <<"data">>
ProcessedDir == <<"processed">>

\* The phases main() accepts.
ValidPhases == {"train", "test", "dev"}

\* The values cfg.phase takes here.
PhaseArgs == ValidPhases \cup {"foo"}

\* The phases whose series file is replaced between runs: the raw data of
\* train.  The file of dev stays as the first run finds it, and there is
\* no file for test.
ReplacedInputs == {"train"}

NoValue == "none"

\* No completed run of a phase yet.
NoRun == [done |-> FALSE, input |-> <<>>, tree |-> <<>>]

-----------------------------------------------------------------------------
(* Timestamps.  A timestamp string is modelled by its fields; fmt says     *)
(* whether the text matches %Y-%m-%dT%H:%M:%S%z.  off is the UTC offset in *)
(* hours.                                                                  *)

TS(mo, d, h, mi, off) ==
    [fmt |-> "iso", mo |-> mo, d |-> d, h |-> h, mi |-> mi, off |-> off]

Malformed == [fmt |-> "bad", mo |-> 1, d |-> 1, h |-> 0, mi |-> 0, off |-> 0]

DaysBeforeMonth ==
    <<0, 31, 59, 90, 120, 151, 181, 212, 243, 273, 304, 334>>

\* str.to_datetime with %z: the instant in UTC, here in minutes since the
\* start of the (365-day) year.
to_datetime(ts) ==
    ((DaysBeforeMonth[ts.mo] + ts.d - 1) * 24 + ts.h - ts.off) * 60 + ts.mi

\* dt.hour() and dt.minute() of a UTC instant.
dt_hour(t) == (t \div 60) % 24
dt_minute(t) == t % 60
DayOfYear(t) == (t \div 1440) % 365
\* Variant: months counted from 0.
dt_month0(t) ==
    CHOOSE m \in 0..11 :
        /\ DaysBeforeMonth[m + 1] <= DayOfYear(t)
        /\ (m = 11 \/ DayOfYear(t) < DaysBeforeMonth[m + 2])
\* dt.month(): 1 for January to 12 for December.
dt_month(t) ==
    CHOOSE m \in 1..12 :
        /\ DaysBeforeMonth[m] <= DayOfYear(t)
        /\ (m = 12 \/ DayOfYear(t) < DaysBeforeMonth[m + 1])

\* Variant: a parse that lets every string through.
ParsesLenient(rows) == TRUE
\* Strict parsing: one bad string fails the whole column.
Parses(rows) == \A i \in 1..Len(rows) : rows[i].timestamp.fmt = "iso"

-----------------------------------------------------------------------------
(* Column transforms *)

\* (x - mean) / std, in hundredths.
Normalize(x, mean, std) == ((x - mean) * 100) \div std

\* One raw row after with_columns(...).select(...) of the preprocess step.
Preprocess(row) ==
    [series_id |-> row.series_id,
     anglez |-> Normalize(row.anglez, ANGLEZ_MEAN, ANGLEZ_STD),
     enmo |-> Normalize(row.enmo, ENMO_MEAN, ENMO_STD),
     timestamp |-> to_datetime(row.timestamp)]

PreprocessAll(rows) == [i \in 1..Len(rows) |-> Preprocess(rows[i])]

\* rad = 2 * pi * (x % max_) / max_
Rad(x, max_) == [num |-> x % max_, den |-> max_]

to_coord(x, max_, name) ==
    (name \o "_sin") :> <<"sin", Rad(x, max_)>> @@
    (name \o "_cos") :> <<"cos", Rad(x, max_)>>

add_feature_row(r) ==
    ("series_id" :> r.series_id) @@ ("anglez" :> r.anglez) @@ ("enmo" :> r.enmo)
    @@ to_coord(dt_hour(r.timestamp), 24, "hour")
    @@ to_coord(dt_month(r.timestamp), 12, "month")
    @@ to_coord(dt_minute(r.timestamp), 60, "minute")

add_feature(df) == [i \in 1..Len(df) |-> add_feature_row(df[i])]

get_column(df, col_name) == [i \in 1..Len(df) |-> df[i][col_name]]

-----------------------------------------------------------------------------
(* Sorting and grouping *)

\* The order of sort(by=["series_id", "timestamp"]).  Series ids are "s"
\* followed by a digit, compared here by rank.
SeriesRank(s) == CASE s = "s1" -> 1 [] s = "s2" -> 2 [] OTHER -> 3

\* Variant: no ordering at all.
RowLeqUnsorted(a, b) == TRUE
RowLeq(a, b) ==
    \/ SeriesRank(a.series_id) < SeriesRank(b.series_id)
    \/ /\ a.series_id = b.series_id
       /\ a.timestamp <= b.timestamp

IsSorted(df) == \A i \in 1..(Len(df) - 1) : RowLeq(df[i], df[i + 1])

Perms(n) ==
    {p \in [1..n -> 1..n] : \A i, j \in 1..n : p[i] = p[j] => i = j}

\* Every result sort() may return: the sort is not stable (maintain_order
\* is left False), so rows equal on both keys come out in any order.
SortResults(df) ==
    {s \in {[i \in 1..Len(df) |-> df[p[i]]] : p \in Perms(Len(df))} :
        IsSorted(s)}

UniqueSeries(df) == {df[i].series_id : i \in 1..Len(df)}

\* Variant: every row in every group.
InGroupAll(row, s) == TRUE
InGroup(row, s) == row.series_id = s

\* One group of group_by("series_id"): the rows of s, in the frame's order.
Group(df, s) == SelectSeq(df, LAMBDA row : InGroup(row, s))

-----------------------------------------------------------------------------
(* Paths *)

IsPrefix(p, q) == Len(p) <= Len(q) /\ SubSeq(q, 1, Len(p)) = p

\* Variant: the phase left out of the path.
OutputRootShared(ph) == ProcessedDir
\* processed_dir = Path(cfg.dir.processed_dir) / cfg.phase
OutputRoot(ph) == Append(ProcessedDir, ph)

SeriesFileName(ph) == ph \o "_series.parquet"

\* The file scan_parquet is pointed at.
InputPath(ph) ==
    IF ph \in {"train", "test"}
    THEN Append(DataDir, SeriesFileName(ph))
    ELSE Append(ProcessedDir, SeriesFileName(ph))

NpyName(col_name) == col_name \o ".npy"

Dir == [kind |-> "dir", data |-> <<>>]
File(x) == [kind |-> "file", data |-> x]

Exists(f, p) == p \in DOMAIN f

Restrict(f, S) == [p \in S |-> f[p]]

\* Variant: nothing is removed.
RmtreeNothing(f, p) == f
\* shutil.rmtree(p)
Rmtree(f, p) == Restrict(f, {q \in DOMAIN f : ~IsPrefix(p, q)})

\* mkdir(parents=True, exist_ok=True)
Mkdir(f, p) ==
    [q \in DOMAIN f \cup {SubSeq(p, 1, n) : n \in 1..Len(p)} |->
        IF q \in DOMAIN f THEN f[q] ELSE Dir]

\* np.save(path, x)
Save(f, path, x) ==
    [q \in DOMAIN f \cup {path} |-> IF q = path THEN File(x) ELSE f[q]]

-----------------------------------------------------------------------------
(* Inputs: the contents a series file can have *)

Row(s, step, anglez, enmo, ts) ==
    [series_id |-> s, step |-> step, anglez |-> anglez, enmo |-> enmo,
     timestamp |-> ts]

\* One series, one sample.
OneSample == <<Row("s1", 0, 0, 0, TS(1, 1, 0, 0, 0))>>

\* Two series, rows interleaved and out of time order; a December instant,
\* and a January local time that is December in UTC.
TwoSeries ==
    <<Row("s2", 1, 1000000, 41315, TS(12, 31, 23, 59, 0)),
      Row("s1", 1, 0, 0, TS(6, 15, 12, 30, 0)),
      Row("s2", 0, 0, 143144, TS(1, 1, 0, 0, 1)),
      Row("s1", 0, -8810476, 41315, TS(6, 15, 12, 29, 0))>>

\* Two rows of one series at the same instant (written with different
\* offsets), with different sensor values.
SameInstant ==
    <<Row("s1", 0, 0, 0, TS(1, 1, 5, 0, 0)),
      Row("s1", 1, 1000000, 143144, TS(1, 1, 0, 0, -5))>>

\* A series that parses and a series with a timestamp that does not.
BadTimestamp ==
    <<Row("s1", 0, 0, 0, TS(1, 1, 0, 0, 0)),
      Row("s2", 0, 0, 0, Malformed)>>

Datasets == {OneSample, TwoSeries, SameInstant, BadTimestamp}

\* File systems a first run can find.  Fresh: the raw data only, no
\* processed_dir yet.
FreshFS == Save(DataDir :> Dir, InputPath("train"), TwoSeries)

WithDevInput(f) == Save(Mkdir(f, ProcessedDir), InputPath("dev"), SameInstant)

\* Leftovers: a directory named after an unknown phase, and an output
\* tree of phase test written from other data.
Leftovers(f) ==
    LET d1 == <<"processed", "foo", "s1">>
        d2 == <<"processed", "test", "s3">>
    IN  Save(Save(Mkdir(Mkdir(f, d1), d2), Append(d1, "anglez.npy"), <<0>>),
             Append(d2, "anglez.npy"), <<0, 0>>)

InitialFS == {FreshFS, Leftovers(WithDevInput(FreshFS))}

-----------------------------------------------------------------------------
(* The run of main() *)

Init ==
    /\ fs \in InitialFS
    /\ pc = "idle"
    /\ phase = NoValue
    /\ err = NoValue
    /\ inputRead = <<>>
    /\ series_df = <<>>
    /\ remaining = {}
    /\ cur_series = NoValue
    /\ this_series_df = <<>>
    /\ colIdx = 0
    /\ lastRun = [p \in ValidPhases |-> NoRun]
    /\ runs = 0
    /\ edits = 0

\* The series file is replaced between runs.
SetInput(p, d) ==
    /\ pc = "idle"
    /\ runs < MaxRuns
    /\ edits < MaxEdits
    /\ ~(Exists(fs, InputPath(p)) /\ fs[InputPath(p)].data = d)
    /\ fs' = Save(Mkdir(fs, SubSeq(InputPath(p), 1, 1)), InputPath(p), d)
    /\ edits' = edits + 1
    /\ UNCHANGED <<pc, phase, err, inputRead, series_df, remaining, cur_series,
                   this_series_df, colIdx, lastRun, runs>>

\* main(cfg) is entered with cfg.phase = p.
Start(p) ==
    /\ pc = "idle"
    /\ runs < MaxRuns
    /\ pc' = "wipe"
    /\ phase' = p
    /\ runs' = runs + 1
    /\ err' = NoValue
    /\ inputRead' = <<>>
    /\ series_df' = <<>>
    /\ remaining' = {}
    /\ cur_series' = NoValue
    /\ this_series_df' = <<>>
    /\ colIdx' = 0
    /\ UNCHANGED <<fs, lastRun, edits>>

\* if processed_dir.exists(): shutil.rmtree(processed_dir)
Wipe ==
    /\ pc = "wipe"
    /\ fs' = IF Exists(fs, OutputRoot(phase))
             THEN Rmtree(fs, OutputRoot(phase))
             ELSE fs
    /\ pc' = "load"
    /\ UNCHANGED <<phase, err, inputRead, series_df, remaining, cur_series,
                   this_series_df, colIdx, lastRun, runs, edits>>

Fail(e) ==
    /\ pc' = "failed"
    /\ err' = e

\* The "Load series" block: the phase test, the scan, the preprocess, the
\* sort, n_unique.
Load ==
    /\ pc = "load"
    /\ IF phase \notin ValidPhases
       THEN /\ Fail("InvalidPhase")
            /\ UNCHANGED <<inputRead, series_df, remaining>>
       ELSE IF ~Exists(fs, InputPath(phase))
       THEN /\ Fail("IOError")
            /\ UNCHANGED <<inputRead, series_df, remaining>>
       ELSE /\ inputRead' = fs[InputPath(phase)].data
            /\ IF ~Parses(inputRead')
               THEN /\ Fail("ParseError")
                    /\ UNCHANGED <<series_df, remaining>>
               ELSE /\ series_df' \in SortResults(PreprocessAll(inputRead'))
                    /\ remaining' = UniqueSeries(series_df')
                    /\ pc' = "loop"
                    /\ err' = NoValue
    /\ UNCHANGED <<fs, phase, cur_series, this_series_df, colIdx, lastRun, runs,
                   edits>>

SeriesDir(ph, s) == Append(OutputRoot(ph), s)

\* One iteration of the loop over group_by("series_id"), up to the mkdir of
\* save_each_series.  The groups come in no fixed order.
NextSeries ==
    /\ pc = "loop"
    /\ \E s \in remaining :
        /\ cur_series' = s
        /\ remaining' = remaining \ {s}
        /\ this_series_df' = add_feature(Group(series_df, s))
        /\ fs' = Mkdir(fs, SeriesDir(phase, s))
    /\ colIdx' = 1
    /\ pc' = "save"
    /\ UNCHANGED <<phase, err, inputRead, series_df, lastRun, runs, edits>>

\* Variant: the loop over columns ends after the first.
LastColumnFirst(i) == i >= 1
\* The loop over columns ends after the last of FEATURE_NAMES.
LastColumn(i) == i = Len(FEATURE_NAMES)

\* One iteration of the loop over columns in save_each_series.
SaveColumn ==
    /\ pc = "save"
    /\ fs' = Save(fs,
                  Append(SeriesDir(phase, cur_series),
                         NpyName(FEATURE_NAMES[colIdx])),
                  get_column(this_series_df, FEATURE_NAMES[colIdx]))
    /\ IF LastColumn(colIdx)
       THEN pc' = "loop" /\ colIdx' = 0
       ELSE pc' = "save" /\ colIdx' = colIdx + 1
    /\ UNCHANGED <<phase, err, inputRead, series_df, remaining, cur_series,
                   this_series_df, lastRun, runs, edits>>

\* mkdir or np.save raises: the exception leaves main().
IOFail ==
    /\ \/ pc = "save"
       \/ pc = "loop" /\ remaining # {}
    /\ Fail("IOError")
    /\ UNCHANGED <<fs, phase, inputRead, series_df, remaining, cur_series,
                   this_series_df, colIdx, lastRun, runs, edits>>

\* The loop is exhausted and main() returns.
Finish ==
    /\ pc = "loop"
    /\ remaining = {}
    /\ pc' = "done"
    /\ UNCHANGED <<fs, phase, err, inputRead, series_df, remaining, cur_series,
                   this_series_df, colIdx, lastRun, runs, edits>>

\* The output tree of a phase: what lies under its root.
Tree(f, ph) ==
    Restrict(f, {q \in DOMAIN f : IsPrefix(Append(ProcessedDir, ph), q)})

\* The process ends; a completed run is remembered with its input.
Exit ==
    /\ pc \in {"done", "failed"}
    /\ pc' = "idle"
    /\ lastRun' = IF pc = "done"
                  THEN [lastRun EXCEPT ![phase] =
                            [done |-> TRUE, input |-> inputRead,
                             tree |-> Tree(fs, phase)]]
                  ELSE lastRun
    /\ phase' = NoValue
    /\ err' = NoValue
    /\ inputRead' = <<>>
    /\ series_df' = <<>>
    /\ remaining' = {}
    /\ cur_series' = NoValue
    /\ this_series_df' = <<>>
    /\ colIdx' = 0
    /\ UNCHANGED <<fs, runs, edits>>

Next ==
    \/ \E p \in ReplacedInputs, d \in Datasets : SetInput(p, d)
    \/ \E p \in PhaseArgs : Start(p)
    \/ Wipe
    \/ Load
    \/ NextSeries
    \/ SaveColumn
    \/ IOFail
    \/ Finish
    \/ Exit

Spec == Init /\ [][Next]_vars

TypeOK ==
    /\ pc \in {"idle", "wipe", "load", "loop", "save", "done", "failed"}
    /\ runs \in 0..MaxRuns
    /\ colIdx \in 0..Len(FEATURE_NAMES)

-----------------------------------------------------------------------------
(* Vocabulary of the properties *)

Root(ph) == <<"processed", ph>>

\* The series directories under the output root of ph, and the files of a
\* directory.
SeriesDirs(f, ph) == {q \in DOMAIN f : Len(q) = 3 /\ IsPrefix(Root(ph), q)}
Below(f, d) == {q \in DOMAIN f : Len(q) > Len(d) /\ IsPrefix(d, q)}

ChannelFiles ==
    {"anglez.npy", "enmo.npy", "hour_sin.npy", "hour_cos.npy",
     "month_sin.npy", "month_cos.npy", "minute_sin.npy", "minute_cos.npy"}

\* d holds the eight channel files and nothing else.
Complete(f, d) == Below(f, d) = {Append(d, n) : n \in ChannelFiles}

InputSeries == {inputRead[i].series_id : i \in 1..Len(inputRead)}

\* The indices of the input rows of series s.
RowsOf(s) == {i \in 1..Len(inputRead) : inputRead[i].series_id = s}

Loaded == pc \in {"loop", "save", "done"}

-----------------------------------------------------------------------------
(* C1 *)

\* C1: a run with a phase that is not train, test or dev changes nothing in
\* the file system.
C1_InvalidPhaseTouchesNothing ==
    [][(pc # "idle" /\ phase \notin ValidPhases) => fs' = fs]_vars

-----------------------------------------------------------------------------
(* C2 *)

\* What a completed run over series_df writes.
ExpectedTree ==
    LET dirs == {SeriesDir(phase, s) : s \in UniqueSeries(series_df)}
        file(s, c) == Append(SeriesDir(phase, s), NpyName(c))
        files == {file(s, FEATURE_NAMES[k]) :
                     s \in UniqueSeries(series_df), k \in 1..Len(FEATURE_NAMES)}
    IN  [q \in {Root(phase)} \cup dirs \cup files |->
            IF Len(q) < 4 THEN Dir
            ELSE File(get_column(
                     add_feature(Group(series_df, q[3])),
                     CHOOSE c \in {FEATURE_NAMES[k] : k \in 1..Len(FEATURE_NAMES)} :
                         NpyName(c) = q[4]))]

\* C2: the output tree of the phase is gone before anything is written, and
\* a completed run leaves under it exactly what it wrote from its own input.
C2_CleanRebuild ==
    /\ pc = "load" => DOMAIN Tree(fs, phase) = {}
    /\ pc = "done" =>
        /\ {q[3] : q \in SeriesDirs(fs, phase)} = InputSeries
        /\ Tree(fs, phase) = ExpectedTree

\* A completed run over a tree that an earlier completed run of the phase
\* had filled with a series this run's input does not have.
C2_Witness ==
    /\ pc = "done"
    /\ lastRun[phase].done
    /\ \E q \in DOMAIN lastRun[phase].tree : q \notin DOMAIN fs

-----------------------------------------------------------------------------
(* C3 *)

\* The channel values of one raw input row.
FeaturesOfRaw(row) == add_feature_row(Preprocess(row))

\* C3: every array of a series has one element per input record of the
\* series, and one ordering of those records by ascending instant gives
\* element i of every channel.
C3_CountAndAlignment ==
    pc = "done" =>
        \A s \in InputSeries :
            LET n == Cardinality(RowsOf(s))
                array(c) == fs[Append(SeriesDir(phase, s), NpyName(c))].data
                chans == {FEATURE_NAMES[k] : k \in 1..Len(FEATURE_NAMES)}
            IN  /\ \A c \in chans : Len(array(c)) = n
                /\ \E ord \in [1..n -> RowsOf(s)] :
                    /\ \A i, j \in 1..n : ord[i] = ord[j] => i = j
                    /\ \A i \in 1..(n - 1) :
                          to_datetime(inputRead[ord[i]].timestamp)
                              <= to_datetime(inputRead[ord[i + 1]].timestamp)
                    /\ \A i \in 1..n : \A c \in chans :
                          array(c)[i] = FeaturesOfRaw(inputRead[ord[i]])[c]

\* A completed run over an input whose rows of one series are not in time
\* order.
C3_Witness ==
    /\ pc = "done"
    /\ \E i, j \in 1..Len(inputRead) :
        /\ i < j
        /\ inputRead[i].series_id = inputRead[j].series_id
        /\ to_datetime(inputRead[i].timestamp) > to_datetime(inputRead[j].timestamp)

-----------------------------------------------------------------------------
(* C4 *)

\* C4: the groups partition the rows of the frame, none is empty, and a
\* completed run leaves one directory per series_id of the input, no other.
C4_GroupingPartitions ==
    /\ Loaded =>
        /\ \A s \in UniqueSeries(series_df) : Len(Group(series_df, s)) >= 1
        /\ \A i \in 1..Len(series_df) :
              Cardinality({s \in UniqueSeries(series_df) :
                              \E k \in 1..Len(Group(series_df, s)) :
                                  Group(series_df, s)[k] = series_df[i]}) = 1
        /\ \A s \in UniqueSeries(series_df) :
              Len(Group(series_df, s)) = Cardinality(RowsOf(s))
    /\ pc = "done" => {q[3] : q \in SeriesDirs(fs, phase)} = InputSeries

\* A completed run over an input of two series whose rows are interleaved.
C4_Witness ==
    /\ pc = "done"
    /\ Cardinality(InputSeries) = 2
    /\ \E i \in 1..(Len(inputRead) - 2) :
        /\ inputRead[i].series_id # inputRead[i + 1].series_id
        /\ inputRead[i].series_id = inputRead[i + 2].series_id
    /\ Cardinality(SeriesDirs(fs, phase)) = 2

-----------------------------------------------------------------------------
(* C5 *)

\* C5: a run that completes over the input an earlier completed run of the
\* phase had read leaves the tree that earlier run left.
C5_SameInputSameTree ==
    (pc = "done" /\ lastRun[phase].done /\ lastRun[phase].input = inputRead)
        => Tree(fs, phase) = lastRun[phase].tree

-----------------------------------------------------------------------------
(* C6 *)

HasBadTimestamp(rows) ==
    \E i \in 1..Len(rows) : rows[i].timestamp.fmt # "iso"

\* C6: once a run has read an input with a timestamp that does not match
\* the format, it has failed with a parse error and nothing exists under
\* the phase's output root.
C6_ParseErrorWritesNothing ==
    HasBadTimestamp(inputRead) =>
        /\ pc = "failed"
        /\ err = "ParseError"
        /\ DOMAIN Tree(fs, phase) = {}

\* A run failed on an input in which one series parses and another does
\* not.
C6_Witness ==
    /\ pc = "failed"
    /\ err = "ParseError"
    /\ \E i, j \in 1..Len(inputRead) :
        /\ inputRead[i].timestamp.fmt = "iso"
        /\ inputRead[j].timestamp.fmt # "iso"
        /\ inputRead[i].series_id # inputRead[j].series_id

-----------------------------------------------------------------------------
(* C7 *)

\* C7 as claimed: on every loaded row the modulo leaves hour, month and
\* minute as they are.
C7_ModuloIsNoOp ==
    Loaded =>
        \A i \in 1..Len(series_df) :
            LET t == series_df[i].timestamp
            IN  /\ dt_hour(t) % 24 = dt_hour(t)
                /\ dt_month(t) % 12 = dt_month(t)
                /\ dt_minute(t) % 60 = dt_minute(t)

\* C7 as amended: the modulo leaves hour and minute as they are; month
\* lies in 1..12, and the modulo leaves it as it is except for December,
\* which it maps to 0.
C7_ModuloNoOpButDecember ==
    Loaded =>
        \A i \in 1..Len(series_df) :
            LET t == series_df[i].timestamp
            IN  /\ dt_hour(t) \in 0..23 /\ dt_hour(t) % 24 = dt_hour(t)
                /\ dt_minute(t) \in 0..59 /\ dt_minute(t) % 60 = dt_minute(t)
                /\ dt_month(t) \in 1..12
                /\ dt_month(t) # 12 => dt_month(t) % 12 = dt_month(t)
                /\ dt_month(t) = 12 => dt_month(t) % 12 = 0

\* A completed run that wrote a December row: the angle of its month
\* channels is 0.
C7_Witness ==
    /\ pc = "done"
    /\ \E i \in 1..Len(series_df) : dt_month(series_df[i].timestamp) = 12
    /\ \E q \in DOMAIN fs :
        /\ Len(q) = 4
        /\ q[4] = "month_sin.npy"
        /\ \E k \in 1..Len(fs[q].data) :
              fs[q].data[k] = <<"sin", [num |-> 0, den |-> 12]>>

-----------------------------------------------------------------------------
(* C8 *)

\* C8: after a completed run every series directory holds the eight channel
\* files and nothing else, all of one length, at least 1; one series of one
\* sample gives one directory of eight arrays of length 1.
C8_EightEqualArrays ==
    pc = "done" =>
        /\ \A d \in SeriesDirs(fs, phase) :
            /\ Complete(fs, d)
            /\ \A a, b \in Below(fs, d) :
                  /\ fs[a].kind = "file"
                  /\ Len(fs[a].data) = Len(fs[b].data)
                  /\ Len(fs[a].data) >= 1
        /\ (Len(inputRead) = 1) =>
            /\ Cardinality(SeriesDirs(fs, phase)) = 1
            /\ \A d \in SeriesDirs(fs, phase) :
                  /\ Cardinality(Below(fs, d)) = 8
                  /\ \A a \in Below(fs, d) : Len(fs[a].data) = 1

\* A completed run over one series of one sample.
C8_Witness ==
    /\ pc = "done"
    /\ Len(inputRead) = 1
    /\ SeriesDirs(fs, phase) # {}

-----------------------------------------------------------------------------
(* C9 *)

Incomplete(f, ph) == {d \in SeriesDirs(f, ph) : ~Complete(f, d)}

\* C9: from the wipe on, at most one series directory is short of the
\* eight files: that of the series being written, also after a failure.
C9_OneSeriesAtATime ==
    pc \notin {"idle", "wipe"} =>
        /\ Cardinality(Incomplete(fs, phase)) <= 1
        /\ Incomplete(fs, phase) # {} =>
            /\ pc \in {"save", "failed"}
            /\ Incomplete(fs, phase) = {<<"processed", phase, cur_series>>}

\* A run stopped by an I/O error between two files of its second series.
C9_Witness ==
    /\ pc = "failed"
    /\ err = "IOError"
    /\ \E d \in SeriesDirs(fs, phase) : Complete(fs, d)
    /\ \E d \in Incomplete(fs, phase) : Below(fs, d) # {}

-----------------------------------------------------------------------------
(* C10 *)

\* C10 as claimed: a step of a run for a valid phase leaves every path
\* outside {processed_dir}/{phase} as it is.
C10_OnlyOwnTree ==
    [][(pc # "idle" /\ phase \in ValidPhases) =>
          \A q \in DOMAIN fs \cup DOMAIN fs' :
              ~IsPrefix(<<"processed", phase>>, q) =>
                  /\ q \in DOMAIN fs
                  /\ q \in DOMAIN fs'
                  /\ fs'[q] = fs[q]]_vars

\* C10 as amended: a step of a run for a valid phase deletes and changes
\* nothing outside {processed_dir}/{phase}, and creates nothing outside it
\* but the missing directories above it.
C10_OnlyOwnTreeAndParents ==
    [][(pc # "idle" /\ phase \in ValidPhases) =>
          \A q \in DOMAIN fs \cup DOMAIN fs' :
              ~IsPrefix(<<"processed", phase>>, q) =>
                  /\ q \in DOMAIN fs'
                  /\ q \in DOMAIN fs => fs'[q] = fs[q]
                  /\ q \notin DOMAIN fs =>
                        /\ IsPrefix(q, <<"processed", phase>>)
                        /\ fs'[q] = Dir]_vars

\* A second completed run for dev: its tree was wiped and rebuilt, its
\* input and the tree of phase test are in place.
C10_Witness ==
    /\ pc = "done"
    /\ phase = "dev"
    /\ lastRun["dev"].done
    /\ Exists(fs, <<"processed", "dev_series.parquet">>)
    /\ Exists(fs, <<"processed", "test", "s3", "anglez.npy">>)
    /\ SeriesDirs(fs, "dev") # {}

====
